---- MODULE Spec2Model ----
(***************************************************************************)
(* Model of reqif_app: the ReqIFGenerator document model and encoder       *)
(* (generate_reqif.py) and the text converter and row mapper               *)
(* (excel_to_reqif.py).  Python str values on which the code does          *)
(* character work (status, priority: .lower(); the converter's text) are   *)
(* sequences of one-character strings; identifiers, which the code only    *)
(* concatenates and                                                        *)
(* copies, are TLA+ strings.  An optional argument is a sequence of        *)
(* length 0 (omitted / None) or 1 (supplied).                              *)
(***************************************************************************)
EXTENDS Integers, Sequences, FiniteSets, TLC

VARIABLES
    title,           \* self.title
    timestamp,       \* self.timestamp, the host clock read by __init__
    spec_objects,    \* self.spec_objects
    spec_relations,  \* self.spec_relations
    result,          \* the last call: its operation, arguments and outcome
    encodings,       \* the documents generate() rendered since the last append
    auto_only,       \* every registered object was added without `identifier`
    text,            \* the text handed to build_xhtml_from_text
    pc,              \* where main() stands
    req_rows,        \* the records of the Requirements sheet
    rel_rows,        \* the records of the Relations sheet
    req_rows_sorted, \* main's local of that name
    next_row,        \* the position of the running loop in its list
    id_map,          \* IE PUID -> identifier returned by add_requirement
    warnings,        \* the messages collected for skipped rows
    added_reqs,      \* the counters main reports
    added_rels,
    output_file,     \* what the file system holds at the output path
    previous_file,   \* what it held when generate() was last entered
    xml_str,         \* generate's local of that name: the rendered bytes, once rendered
    gen_pc           \* where generate() stands

main_vars == <<pc, req_rows, rel_rows, req_rows_sorted, next_row, id_map, warnings,
               added_reqs, added_rels>>

out_vars == <<output_file, previous_file, xml_str, gen_pc>>

vars == <<title, timestamp, spec_objects, spec_relations, result, encodings, auto_only, text,
          main_vars, out_vars>>

\* ---------------------------------------------------------------- bounds
\* objects plus relations a document holds, and encodings of one document state
MaxEntries == 2
MaxEncodings == 2
\* writes the operating system takes to store one document
MaxChunks == 2

\* ------------------------------------------------------- string helpers
UpperLetters == <<"A","B","C","D","E","F","G","H","I","J","K","L","M",
                  "N","O","P","Q","R","S","T","U","V","W","X","Y","Z">>
LowerLetters == <<"a","b","c","d","e","f","g","h","i","j","k","l","m",
                  "n","o","p","q","r","s","t","u","v","w","x","y","z">>

\* the lower-case letter of each upper-case letter
ToLower ==
    [c \in {UpperLetters[i] : i \in DOMAIN UpperLetters} |->
        LowerLetters[CHOOSE i \in DOMAIN UpperLetters : UpperLetters[i] = c]]

LowerChar(c) == IF c \in DOMAIN ToLower THEN ToLower[c] ELSE c

\* str.lower()
Lower(s) == [i \in DOMAIN s |-> LowerChar(s[i])]

\* str.zfill(width)
RECURSIVE Zfill(_, _)
Zfill(s, width) == IF Len(s) >= width THEN s ELSE Zfill("0" \o s, width)

\* dict.get(key, default)
DictGet(d, key, default) == IF key \in DOMAIN d THEN d[key] ELSE default

\* an optional argument: the supplied value, or the parameter's default
ArgOr(arg, default) == IF arg = <<>> THEN default ELSE arg[1]

\* the values of an argument that may be None, a str or an Element: the type
\* the code would find with isinstance, and the value
PyNone == [py |-> "None"]
PyStr(s) == [py |-> "str", str |-> s]
PyElement(children) == [py |-> "Element", div |-> children]
PyInt(n) == [py |-> "int", int |-> n]

\* the characters of a string, and the string of a sequence of characters
Chars(s) == [i \in 1..Len(s) |-> SubSeq(s, i, i)]
RECURSIVE Str(_)
Str(chars) == IF chars = <<>> THEN "" ELSE chars[1] \o Str(Tail(chars))

\* sub in s
Contains(s, sub) == \E i \in 1..(Len(s) - Len(sub) + 1) : SubSeq(s, i, i + Len(sub) - 1) = sub

\* --------------------------------------------------- ReqIFGenerator.__init__
dt_string == "DT-STRING"
dt_xhtml == "DT-XHTML"
dt_integer == "DT-INTEGER"
dt_status == "DT-STATUS"
dt_priority == "DT-PRIORITY"

status_values ==
    (<<"d","r","a","f","t">> :> "EV-STATUS-DRAFT")
    @@ (<<"w","i","p">> :> "EV-STATUS-WIP")
    @@ (<<"r","e","v","i","e","w","e","d">> :> "EV-STATUS-REVIEWED")
    @@ (<<"a","p","p","r","o","v","e","d">> :> "EV-STATUS-APPROVED")

priority_values ==
    (<<"h","i","g","h">> :> "EV-PRIO-HIGH")
    @@ (<<"m","e","d","i","u","m">> :> "EV-PRIO-MEDIUM")
    @@ (<<"l","o","w">> :> "EV-PRIO-LOW")

\* ------------------------------------------------------------ inputs
\* datetime.now().strftime('%Y-%m-%dT%H:%M:%SZ') when the generator is built
ClockReadings == {"2026-11-04T05:41:07Z"}

NoArgs == [none |-> TRUE]
NoCall == [op |-> "init", args |-> NoArgs, raised |-> "", value |-> ""]

ReqTypeArgs == {"functional", "interface", "performance", "security"}
ForeignIdArgs == {1001}
NameArgs == {"User Authentication"}
ChapterArgs == {PyStr("Chapter 1.1")}
DescriptionArgs == {"Access control."}
TextContentArgs == {PyStr("The system shall authenticate users.")}
\* "Draft", "obsolete", or the parameter left out
StatusArgs == {<<>>, << <<"D","r","a","f","t">> >>, << <<"o","b","s","o","l","e","t","e">> >>}
\* "LOW", "urgent", or the parameter left out
PriorityArgs == {<<>>, << <<"L","O","W">> >>, << <<"u","r","g","e","n","t">> >>}
ReqPrefixArgs == {<<>>}
IdentifierArgs == {<<>>, <<"SO-F-002">>}
IePuidArgs == {<<>>}

RelationTypeArgs == {"satisfy", "derive", "refine", "conflict"}
SourceIdArgs == {"SO-F-001", "SO-X-404"}
TargetIdArgs == {"SO-I-002", "SO-X-404"}
RelIdentifierArgs == {<<>>}

\* ------------------------------------------ ReqIFGenerator.add_requirement
\* the same table with the interface row's attribute prefix copied from the
\* functional row
req_type_map_copied_prefix ==
    ("functional" :> <<"T-REQ-FUNCTIONAL", "F", "F">>)
    @@ ("interface" :> <<"T-REQ-INTERFACE", "I", "F">>)
    @@ ("performance" :> <<"T-REQ-PERFORMANCE", "P", "P">>)

req_type_map ==
    ("functional" :> <<"T-REQ-FUNCTIONAL", "F", "F">>)
    @@ ("interface" :> <<"T-REQ-INTERFACE", "I", "I">>)
    @@ ("performance" :> <<"T-REQ-PERFORMANCE", "P", "P">>)

\* the parameter defaults of the signature
DefaultStatus == <<"a","p","p","r","o","v","e","d">>
DefaultPriority == <<"h","i","g","h">>
DefaultReqPrefix == "SYS"

\* the same numbering counting the objects of the call's kind only
AutoIdentifierPerKind(prefix_short, objs) ==
    "SO-" \o prefix_short \o "-"
    \o Zfill(ToString(Cardinality({i \in DOMAIN objs : objs[i].attr_prefix = prefix_short}) + 1), 3)

\* the same numbering counting the relations instead of the objects
AutoIdentifierByRelations(prefix_short, objs) ==
    "SO-" \o prefix_short \o "-" \o Zfill(ToString(Len(spec_relations) + 1), 3)

\* f"SO-{prefix_short}-{str(len(self.spec_objects) + 1).zfill(3)}"
AutoIdentifier(prefix_short, objs) ==
    "SO-" \o prefix_short \o "-" \o Zfill(ToString(Len(objs) + 1), 3)

\* f"REQ-{str(len(self.spec_objects) + 1).zfill(3)}"
AutoIePuid(objs) == "REQ-" \o Zfill(ToString(Len(objs) + 1), 3)

\* self.status_values.get(status.lower(), self.status_values['approved'])
StatusValue(status) ==
    DictGet(status_values, Lower(status), status_values[<<"a","p","p","r","o","v","e","d">>])

\* the same lookup falling back to the signature's default, high
PriorityValueFallbackHigh(priority) ==
    DictGet(priority_values, Lower(priority), priority_values[<<"h","i","g","h">>])

\* self.priority_values.get(priority.lower(), self.priority_values['medium'])
PriorityValue(priority) ==
    DictGet(priority_values, Lower(priority), priority_values[<<"m","e","d","i","u","m">>])

\* the method as a function of the list it appends to: what it raises, what
\* it returns, and the list afterwards
add_requirement(objs, req_type, foreign_id, name, chapter, description, text_content, status, priority, req_prefix, identifier, ie_puid) ==
    IF req_type \notin DOMAIN req_type_map
    THEN [raised |-> "ValueError", value |-> "", objects |-> objs]
    ELSE LET type_ref == req_type_map[req_type][1]
             prefix_short == req_type_map[req_type][2]
             attr_prefix == req_type_map[req_type][3]
             ident == IF identifier = <<>>
                      THEN AutoIdentifier(prefix_short, objs)
                      ELSE identifier[1]
             puid == IF ie_puid = <<>> THEN AutoIePuid(objs) ELSE ie_puid[1]
             req == [identifier |-> ident,
                     type_ref |-> type_ref,
                     foreign_id |-> foreign_id,
                     name |-> name,
                     chapter |-> chapter,
                     description |-> description,
                     text_content |-> text_content,
                     status |-> StatusValue(ArgOr(status, DefaultStatus)),
                     priority |-> PriorityValue(ArgOr(priority, DefaultPriority)),
                     req_prefix |-> ArgOr(req_prefix, DefaultReqPrefix),
                     attr_prefix |-> attr_prefix,
                     ie_puid |-> puid]
         IN  [raised |-> "", value |-> ident, objects |-> Append(objs, req)]

AddRequirement(req_type, foreign_id, name, chapter, description, text_content, status, priority, req_prefix, identifier, ie_puid) ==
    /\ Len(spec_objects) + Len(spec_relations) < MaxEntries
    /\ LET out == add_requirement(spec_objects, req_type, foreign_id, name, chapter,
                                  description, text_content, status, priority,
                                  req_prefix, identifier, ie_puid)
       IN  /\ spec_objects' = out.objects
           /\ result' = [op |-> "add_requirement",
                         args |-> [kind |-> req_type, status |-> status,
                                   priority |-> priority, identifier |-> identifier],
                         raised |-> out.raised, value |-> out.value]
           /\ encodings' = IF out.objects = spec_objects THEN encodings ELSE <<>>
           /\ auto_only' = IF out.raised = "" THEN auto_only /\ identifier = <<>>
                           ELSE auto_only
    /\ UNCHANGED <<main_vars, text, out_vars, title, timestamp, spec_relations>>

\* --------------------------------------------- ReqIFGenerator.add_relation
rel_type_map ==
    ("satisfy" :> "T-REL-SATISFY")
    @@ ("derive" :> "T-REL-DERIVE")
    @@ ("refine" :> "T-REL-REFINE")

\* f"SR-{str(len(self.spec_relations) + 1).zfill(3)}"
AutoRelIdentifier(rels) == "SR-" \o Zfill(ToString(Len(rels) + 1), 3)

\* the same method with the append moved ahead of the kind check
add_relation_append_first(rels, relation_type, source_id, target_id, identifier) ==
    LET ident == IF identifier = <<>> THEN AutoRelIdentifier(rels) ELSE identifier[1]
        rel == [identifier |-> ident,
                type_ref |-> DictGet(rel_type_map, relation_type, ""),
                source |-> source_id,
                target |-> target_id]
    IN  [raised |-> IF relation_type \notin DOMAIN rel_type_map THEN "ValueError" ELSE "",
         relations |-> Append(rels, rel)]

add_relation(rels, relation_type, source_id, target_id, identifier) ==
    IF relation_type \notin DOMAIN rel_type_map
    THEN [raised |-> "ValueError", relations |-> rels]
    ELSE LET ident == IF identifier = <<>> THEN AutoRelIdentifier(rels) ELSE identifier[1]
             rel == [identifier |-> ident,
                     type_ref |-> rel_type_map[relation_type],
                     source |-> source_id,
                     target |-> target_id]
         IN  [raised |-> "", relations |-> Append(rels, rel)]

AddRelation(relation_type, source_id, target_id, identifier) ==
    /\ Len(spec_objects) + Len(spec_relations) < MaxEntries
    /\ LET out == add_relation(spec_relations, relation_type, source_id, target_id, identifier)
       IN  /\ spec_relations' = out.relations
           /\ result' = [op |-> "add_relation",
                         args |-> [kind |-> relation_type, source_id |-> source_id,
                                   target_id |-> target_id],
                         raised |-> out.raised, value |-> ""]
           /\ encodings' = IF out.relations = spec_relations THEN encodings ELSE <<>>
    /\ UNCHANGED <<main_vars, text, out_vars, title, timestamp, spec_objects, auto_only>>

\* ---------------------------------------------- ReqIFGenerator._create_header
\* the same header stamped with the constant the other attributes use
CreateHeaderToolTime ==
    [identifier |-> "HDR-001",
     creation_time |-> "ReqIF_Generator",
     req_if_tool_id |-> "ReqIF_Generator",
     req_if_version |-> "1.0",
     source_tool_id |-> "ReqIF_Generator",
     title |-> title]

CreateHeader ==
    [identifier |-> "HDR-001",
     creation_time |-> timestamp,
     req_if_tool_id |-> "ReqIF_Generator",
     req_if_version |-> "1.0",
     source_tool_id |-> "ReqIF_Generator",
     title |-> title]

\* ------------------------------------------- ReqIFGenerator._create_datatypes
status_defs == <<"EV-STATUS-DRAFT", "EV-STATUS-WIP", "EV-STATUS-REVIEWED", "EV-STATUS-APPROVED">>
priority_defs == <<"EV-PRIO-HIGH", "EV-PRIO-MEDIUM", "EV-PRIO-LOW">>

EnumValues(defs) == [i \in DOMAIN defs |-> [identifier |-> defs[i], key |-> i - 1]]

CreateDatatypes ==
    << [tag |-> "DATATYPE-DEFINITION-STRING", identifier |-> dt_string, values |-> <<>>],
       [tag |-> "DATATYPE-DEFINITION-XHTML", identifier |-> dt_xhtml, values |-> <<>>],
       [tag |-> "DATATYPE-DEFINITION-INTEGER", identifier |-> dt_integer, values |-> <<>>],
       [tag |-> "DATATYPE-DEFINITION-ENUMERATION", identifier |-> dt_status,
        values |-> EnumValues(status_defs)],
       [tag |-> "DATATYPE-DEFINITION-ENUMERATION", identifier |-> dt_priority,
        values |-> EnumValues(priority_defs)] >>

\* ------------------------------------ ReqIFGenerator._create_spec_object_type
AttrDef(tag, identifier, long_name, datatype) ==
    [tag |-> tag, identifier |-> identifier, long_name |-> long_name, type |-> datatype]

CreateSpecObjectType(type_id, long_name, prefix) ==
    [tag |-> "SPEC-OBJECT-TYPE",
     identifier |-> type_id,
     long_name |-> long_name,
     attributes |->
       << AttrDef("ATTRIBUTE-DEFINITION-INTEGER", prefix \o "-AD-FOREIGNID", "ReqIF.ForeignID", dt_integer),
          AttrDef("ATTRIBUTE-DEFINITION-STRING", prefix \o "-AD-NAME", "ReqIF.Name", dt_string),
          AttrDef("ATTRIBUTE-DEFINITION-STRING", prefix \o "-AD-IEPUID", "IE PUID", dt_string),
          AttrDef("ATTRIBUTE-DEFINITION-STRING", prefix \o "-AD-CHAP", "ReqIF.ChapterName", dt_string),
          AttrDef("ATTRIBUTE-DEFINITION-XHTML", prefix \o "-AD-DESC", "ReqIF.Description", dt_xhtml),
          AttrDef("ATTRIBUTE-DEFINITION-STRING", prefix \o "-AD-PREFIX", "ReqIF.Prefix", dt_string),
          AttrDef("ATTRIBUTE-DEFINITION-XHTML", prefix \o "-AD-TEXT", "ReqIF.Text", dt_xhtml),
          AttrDef("ATTRIBUTE-DEFINITION-ENUMERATION", prefix \o "-AD-STATUS", "Status", dt_status),
          AttrDef("ATTRIBUTE-DEFINITION-ENUMERATION", prefix \o "-AD-PRIORITY", "Priority", dt_priority) >>]

\* ------------------------------------------ ReqIFGenerator._create_spec_types
CreateSpecTypes ==
    << [tag |-> "SPECIFICATION-TYPE",
        identifier |-> "T-MODULE",
        long_name |-> "Stakeholder Requirements",
        attributes |->
          << AttrDef("ATTRIBUTE-DEFINITION-STRING", "AD-MOD-ID", "ID", dt_string),
             AttrDef("ATTRIBUTE-DEFINITION-XHTML", "AD-MOD-DESC", "Description", dt_xhtml) >>],
       CreateSpecObjectType("T-REQ-FUNCTIONAL", "functional", "F"),
       CreateSpecObjectType("T-REQ-INTERFACE", "interface", "I"),
       CreateSpecObjectType("T-REQ-PERFORMANCE", "performance", "P"),
       [tag |-> "SPEC-RELATION-TYPE", identifier |-> "T-REL-SATISFY",
        long_name |-> "satisfy", attributes |-> <<>>],
       [tag |-> "SPEC-RELATION-TYPE", identifier |-> "T-REL-DERIVE",
        long_name |-> "derive", attributes |-> <<>>],
       [tag |-> "SPEC-RELATION-TYPE", identifier |-> "T-REL-REFINE",
        long_name |-> "refine", attributes |-> <<>>] >>

\* --------------------------------------- ReqIFGenerator._create_xhtml_element
\* is_formatted=False: a div holding one paragraph with the text
CreateXhtmlElement(text_content) == [div |-> << [p |-> text_content] >>]

\* ---------------------------------------- ReqIFGenerator._create_spec_objects
AttrValue(tag, definition, the_value) ==
    [tag |-> tag, definition |-> definition, the_value |-> the_value]

SpecObjectElement(req) ==
    [identifier |-> req.identifier,
     last_change |-> timestamp,
     type_ref |-> req.type_ref,
     values |->
       << AttrValue("ATTRIBUTE-VALUE-INTEGER", req.attr_prefix \o "-AD-FOREIGNID",
                    ToString(req.foreign_id)),
          AttrValue("ATTRIBUTE-VALUE-STRING", req.attr_prefix \o "-AD-NAME", req.name),
          AttrValue("ATTRIBUTE-VALUE-STRING", req.attr_prefix \o "-AD-CHAP", req.chapter.str),
          AttrValue("ATTRIBUTE-VALUE-STRING", req.attr_prefix \o "-AD-IEPUID", req.ie_puid),
          AttrValue("ATTRIBUTE-VALUE-XHTML", req.attr_prefix \o "-AD-DESC",
                    CreateXhtmlElement(req.description)),
          AttrValue("ATTRIBUTE-VALUE-STRING", req.attr_prefix \o "-AD-PREFIX", req.req_prefix),
          AttrValue("ATTRIBUTE-VALUE-XHTML", req.attr_prefix \o "-AD-TEXT",
                    IF req.text_content.py = "Element"
                    THEN [div |-> req.text_content.div]
                    ELSE CreateXhtmlElement(req.text_content.str)),
          AttrValue("ATTRIBUTE-VALUE-ENUMERATION", req.attr_prefix \o "-AD-STATUS", req.status),
          AttrValue("ATTRIBUTE-VALUE-ENUMERATION", req.attr_prefix \o "-AD-PRIORITY",
                    req.priority) >>]

CreateSpecObjects(objs) == [i \in DOMAIN objs |-> SpecObjectElement(objs[i])]

\* -------------------------------------- ReqIFGenerator._create_spec_relations
\* the same element with the two references exchanged
SpecRelationElementSwapped(rel) ==
    [identifier |-> rel.identifier,
     last_change |-> timestamp,
     type_ref |-> rel.type_ref,
     source |-> rel.target,
     target |-> rel.source]

SpecRelationElement(rel) ==
    [identifier |-> rel.identifier,
     last_change |-> timestamp,
     type_ref |-> rel.type_ref,
     source |-> rel.source,
     target |-> rel.target]

CreateSpecRelations(rels) == [i \in DOMAIN rels |-> SpecRelationElement(rels[i])]

\* -------------------------------------- ReqIFGenerator._create_specifications
\* the same entry numbered from 0, as enumerate() without its start argument
SpecHierarchyElementFromZero(idx, req) ==
    [identifier |-> "SH-" \o Zfill(ToString(idx - 1), 3),
     last_change |-> timestamp,
     object |-> req.identifier]

SpecHierarchyElement(idx, req) ==
    [identifier |-> "SH-" \o Zfill(ToString(idx), 3),
     last_change |-> timestamp,
     object |-> req.identifier]

CreateSpecifications(objs) ==
    [identifier |-> "SP-001",
     long_name |-> title,
     last_change |-> timestamp,
     type_ref |-> "T-MODULE",
     values |->
       << AttrValue("ATTRIBUTE-VALUE-STRING", "AD-MOD-ID", "SRS-001"),
          AttrValue("ATTRIBUTE-VALUE-XHTML", "AD-MOD-DESC",
                    CreateXhtmlElement("This module contains system-level requirements for "
                                       \o title \o ".")) >>,
     children |-> [idx \in DOMAIN objs |-> SpecHierarchyElement(idx, objs[idx])]]

\* ---------------------------------------------------- ReqIFGenerator.generate
\* the element tree generate() builds and serializes
Render(objs, rels) ==
    [header |-> CreateHeader,
     datatypes |-> CreateDatatypes,
     spec_types |-> CreateSpecTypes,
     spec_objects |-> CreateSpecObjects(objs),
     spec_relations |-> CreateSpecRelations(rels),
     specifications |-> CreateSpecifications(objs)]

\* ElementTree.tostring serializes str attribute values only: an object whose
\* chapter is None makes it raise
Serializable(objs) == \A i \in DOMAIN objs : objs[i].chapter.py = "str"

\* the method as a function of the two lists: what it raises and the document
\* it writes, if any
generate(objs, rels) ==
    IF Serializable(objs)
    THEN [raised |-> "", written |-> << Render(objs, rels) >>]
    ELSE [raised |-> "TypeError", written |-> <<>>]

\* what the output path holds: no file, bytes this generator did not write, an
\* empty file, or the first `chunks` writes of the bytes of a document (`of`
\* holds the document the bytes serialize)
NoFile == [exists |-> FALSE, of |-> <<>>, chunks |-> 0]
ForeignFile == [exists |-> TRUE, of |-> <<>>, chunks |-> MaxChunks]
EmptyFile == [exists |-> TRUE, of |-> <<>>, chunks |-> 0]
FileOf(bytes, chunks) ==
    IF chunks = 0 THEN EmptyFile ELSE [exists |-> TRUE, of |-> bytes, chunks |-> chunks]

\* generate not running
OutputIdle ==
    /\ output_file = NoFile
    /\ previous_file = NoFile
    /\ xml_str = <<>>
    /\ gen_pc = "idle"

\* the path after generate() on a file system that takes every write
Stored(file, out) == IF out.raised = "" THEN FileOf(out.written, MaxChunks) ELSE file

\* the same method emptying the object list once it has rendered it
GenerateConsuming ==
    /\ Len(encodings) < MaxEncodings
    /\ LET out == generate(spec_objects, spec_relations)
       IN  /\ encodings' = encodings \o out.written
           /\ output_file' = Stored(output_file, out)
           /\ previous_file' = output_file
           /\ result' = [op |-> "generate", args |-> NoArgs, raised |-> out.raised, value |-> ""]
    /\ spec_objects' = <<>>
    /\ UNCHANGED <<main_vars, text, xml_str, gen_pc, title, timestamp, spec_relations, auto_only>>

Generate ==
    /\ Len(encodings) < MaxEncodings
    /\ LET out == generate(spec_objects, spec_relations)
       IN  /\ encodings' = encodings \o out.written
           /\ output_file' = Stored(output_file, out)
           /\ previous_file' = output_file
           /\ result' = [op |-> "generate", args |-> NoArgs, raised |-> out.raised, value |-> ""]
    /\ UNCHANGED <<main_vars, text, xml_str, gen_pc, title, timestamp, spec_objects, spec_relations, auto_only>>

\* ------------------------------------------------------ build_xhtml_from_text
\* lines of text handed to the converter
MaxLines == 3

\* the characters str.strip() and str.rstrip() remove, among those of the inputs
Whitespace == {" ", "\t", "\n", "\r"}

\* str.rstrip()
RECURSIVE RStrip(_)
RStrip(s) ==
    IF s # <<>> /\ s[Len(s)] \in Whitespace THEN RStrip(SubSeq(s, 1, Len(s) - 1)) ELSE s

\* str.lstrip()
RECURSIVE LStrip(_)
LStrip(s) == IF s # <<>> /\ s[1] \in Whitespace THEN LStrip(Tail(s)) ELSE s

\* str.strip()
Strip(s) == LStrip(RStrip(s))

\* str.startswith(prefix)
StartsWith(s, prefix) == Len(s) >= Len(prefix) /\ SubSeq(s, 1, Len(prefix)) = prefix

\* text.replace('\r\n', '\n')
RECURSIVE ReplaceCrLf(_)
ReplaceCrLf(s) ==
    IF s = <<>> THEN <<>>
    ELSE IF StartsWith(s, <<"\r", "\n">>) THEN <<"\n">> \o ReplaceCrLf(SubSeq(s, 3, Len(s)))
    ELSE <<s[1]>> \o ReplaceCrLf(Tail(s))

\* .replace('\r', '\n')
ReplaceCr(s) == [i \in DOMAIN s |-> IF s[i] = "\r" THEN "\n" ELSE s[i]]

\* .split('\n'): the pieces between the separators, one more than there are
\* separators
RECURSIVE SplitLf(_)
SplitLf(s) ==
    IF \A i \in DOMAIN s : s[i] # "\n" THEN <<s>>
    ELSE LET k == CHOOSE i \in DOMAIN s : s[i] = "\n" /\ \A j \in 1..(i - 1) : s[j] # "\n"
         IN  <<SubSeq(s, 1, k - 1)>> \o SplitLf(SubSeq(s, k + 1, Len(s)))

\* lines = text.replace('\r\n', '\n').replace('\r', '\n').split('\n')
SplitLines(s) == SplitLf(ReplaceCr(ReplaceCrLf(s)))

\* '\n'.join(buf)
RECURSIVE JoinLf(_)
JoinLf(buf) ==
    IF buf = <<>> THEN <<>>
    ELSE IF Len(buf) = 1 THEN buf[1]
    ELSE buf[1] \o <<"\n">> \o JoinLf(Tail(buf))

\* flush_paragraph(buf): the div after the call
flush_paragraph(div, buf) ==
    LET content == Strip(JoinLf(buf))
    IN  IF content # <<>> THEN Append(div, [p |-> content]) ELSE div

\* one pass of the loop over the lines; st holds the div built so far, the
\* paragraph buffer, list_mode, and ul_elem as the position in the div of the
\* open list (0 for None)
LineStep(st, raw) ==
    LET line == RStrip(raw)
    IN  IF line = <<>>
        THEN IF st.list_mode
             THEN [st EXCEPT !.list_mode = FALSE, !.ul_elem = 0]
             ELSE IF st.buffer # <<>>
             THEN [st EXCEPT !.div = flush_paragraph(st.div, st.buffer), !.buffer = <<>>]
             ELSE st
        ELSE IF StartsWith(line, <<"-", " ">>)
        THEN LET opened ==
                   IF ~st.list_mode
                   THEN LET flushed == IF st.buffer # <<>>
                                       THEN flush_paragraph(st.div, st.buffer)
                                       ELSE st.div
                        IN  [div |-> Append(flushed, [ul |-> <<>>]),
                             buffer |-> <<>>,
                             list_mode |-> TRUE,
                             ul_elem |-> Len(flushed) + 1]
                   ELSE st
                 item == Strip(SubSeq(line, 3, Len(line)))
             IN  [opened EXCEPT !.div[opened.ul_elem].ul = Append(@, item)]
        ELSE [st EXCEPT !.list_mode = FALSE, !.ul_elem = 0,
                        !.buffer = Append(st.buffer, line)]

RECURSIVE LineLoop(_, _)
LineLoop(st, lines) ==
    IF lines = <<>> THEN st ELSE LineLoop(LineStep(st, lines[1]), Tail(lines))

\* the same function returning an empty div for the empty text
build_xhtml_from_text_empty_div(s) ==
    IF s = <<>> THEN <<>>
    ELSE LET st == LineLoop([div |-> <<>>, buffer |-> <<>>, list_mode |-> FALSE, ul_elem |-> 0],
                            SplitLines(s))
         IN  IF st.buffer # <<>> THEN flush_paragraph(st.div, st.buffer) ELSE st.div

\* the children of the div the function returns: [p |-> text] for a <p>,
\* [ul |-> items] for a <ul> with its <li> texts
build_xhtml_from_text(s) ==
    IF s = <<>> THEN << [p |-> <<>>] >>
    ELSE LET st == LineLoop([div |-> <<>>, buffer |-> <<>>, list_mode |-> FALSE, ul_elem |-> 0],
                            SplitLines(s))
         IN  IF st.buffer # <<>> THEN flush_paragraph(st.div, st.buffer) ELSE st.div

BuildXhtmlFromText ==
    /\ result' = [op |-> "build_xhtml_from_text", args |-> NoArgs, raised |-> "",
                  value |-> build_xhtml_from_text(text)]
    /\ UNCHANGED <<main_vars, text, out_vars, title, timestamp, spec_objects, spec_relations, encodings, auto_only>>

\* the lines the texts are made of, and the line endings between them
LineArgs ==
    { <<>>, <<" ">>, <<"-", " ", " ", "a", " ">>, <<"-", " ">>, <<"-", "a">>,
      <<" ", "b", " ">> }
LineEndingArgs == { <<"\n">>, <<"\r", "\n">>, <<"\r">> }

RECURSIVE TextsOf(_)
TextsOf(n) ==
    IF n = 1 THEN LineArgs
    ELSE { t \o e \o l : t \in TextsOf(n - 1), e \in LineEndingArgs, l \in LineArgs }

TextArgs == UNION { TextsOf(n) : n \in 1..MaxLines }

\* ------------------------------------------------------------------- main
\* rows of the Requirements sheet: those of the sheets that vary in their
\* Order column, and those of the other sheets; rows of the Relations sheet
MaxOrderRows == 3
MaxReqRows == 2
MaxRelRows == 1

\* main not running
MainIdle ==
    /\ pc = "idle"
    /\ req_rows = <<>>
    /\ rel_rows = <<>>
    /\ req_rows_sorted = <<>>
    /\ next_row = 1
    /\ id_map = <<>>
    /\ warnings = <<>>
    /\ added_reqs = 0
    /\ added_rels = 0

DigitValue ==
    ("0" :> 0) @@ ("1" :> 1) @@ ("2" :> 2) @@ ("3" :> 3) @@ ("4" :> 4)
    @@ ("5" :> 5) @@ ("6" :> 6) @@ ("7" :> 7) @@ ("8" :> 8) @@ ("9" :> 9)

RECURSIVE DigitsValue(_)
DigitsValue(chars) ==
    IF chars = <<>> THEN 0
    ELSE 10 * DigitsValue(SubSeq(chars, 1, Len(chars) - 1)) + DigitValue[chars[Len(chars)]]

\* int(v) for a cell: <<n>>, or <<>> where it raises.  A str is parsed after
\* its surrounding whitespace is dropped, as an optional sign and digits.
IntOf(v) ==
    IF v.py = "int" THEN <<v.int>>
    ELSE LET chars == Strip(Chars(v.str))
             signed == chars # <<>> /\ chars[1] \in {"+", "-"}
             digits == IF signed THEN Tail(chars) ELSE chars
         IN  IF digits = <<>> \/ \E i \in DOMAIN digits : digits[i] \notin DOMAIN DigitValue
             THEN <<>>
             ELSE IF signed /\ chars[1] = "-" THEN << 0 - DigitsValue(digits) >>
             ELSE << DigitsValue(digits) >>

\* order_key(rec)
order_key(rec) == IF IntOf(rec.order) = <<>> THEN 1000000 ELSE IntOf(rec.order)[1]

\* sorted(rows, key=order_key): rows of equal key keep their order
RECURSIVE Sorted(_)
Sorted(rows) ==
    IF rows = <<>> THEN <<>>
    ELSE LET front == Sorted(SubSeq(rows, 1, Len(rows) - 1))
             row == rows[Len(rows)]
             before == SelectSeq(front, LAMBDA r : order_key(r) <= order_key(row))
             after == SelectSeq(front, LAMBDA r : order_key(r) > order_key(row))
         IN  before \o <<row>> \o after

TYPE_MAP ==
    ("functional" :> "functional") @@ ("func" :> "functional") @@ ("fr" :> "functional")
    @@ ("f" :> "functional")
    @@ ("interface" :> "interface") @@ ("if" :> "interface") @@ ("ir" :> "interface")
    @@ ("i" :> "interface")
    @@ ("performance" :> "performance") @@ ("perf" :> "performance") @@ ("pr" :> "performance")
    @@ ("p" :> "performance")
    @@ ("non-functional" :> "performance") @@ ("nfr" :> "performance")

\* str(cell).strip().lower()
RawType(cell) == Str(Lower(Strip(Chars(cell))))

\* the same classification looking for the kind words before the synonyms
TypeValWordsFirst(cell) ==
    LET raw_type == RawType(cell)
    IN  IF Contains(raw_type, "functional") THEN "functional"
        ELSE IF Contains(raw_type, "interface") THEN "interface"
        ELSE IF Contains(raw_type, "performance") \/ Contains(raw_type, "non-functional")
        THEN "performance"
        ELSE DictGet(TYPE_MAP, raw_type, "")

\* type_val for a Type cell, "" where the row is skipped
TypeVal(cell) ==
    LET raw_type == RawType(cell)
    IN  IF raw_type \in DOMAIN TYPE_MAP THEN TYPE_MAP[raw_type]
        ELSE IF Contains(raw_type, "functional") THEN "functional"
        ELSE IF Contains(raw_type, "interface") THEN "interface"
        ELSE IF Contains(raw_type, "performance") \/ Contains(raw_type, "non-functional")
        THEN "performance"
        ELSE ""

DefaultRowPrefix ==
    ("functional" :> "SYS-F") @@ ("interface" :> "SYS-I") @@ ("performance" :> "SYS-P")

\* one pass of the loop over the requirement rows: the object list, id_map
\* and warnings after it, the identifier add_requirement returned ("" for a
\* skipped row), and what the pass raises, main catching nothing.  Columns
\* the rows do not have read as ''.
requirement_row(objs, idmap, warns, row) ==
    LET type_val == TypeVal(row.type)
    IN  IF type_val = ""
        THEN [objects |-> objs, id_map |-> idmap, so_id |-> "", raised |-> "",
              warnings |-> Append(warns, "Row skipped: invalid Type '"
                                          \o (IF row.type = "" THEN "None" ELSE row.type)
                                          \o "'.")]
        ELSE LET ie_puid == Str(Strip(Chars(row.ie_puid)))
                 name == Str(Strip(Chars(row.name)))
                 description == ""
                 text_plain == Strip(row.text)
                 text_content ==
                     IF text_plain # <<>> THEN build_xhtml_from_text(text_plain)
                     ELSE build_xhtml_from_text(Chars(IF description # "" THEN description
                                                      ELSE name))
                 out == add_requirement(objs, type_val, 0,
                                        IF name # "" THEN name
                                        ELSE IF ie_puid # "" THEN ie_puid ELSE "Untitled",
                                        PyStr(""), description, PyElement(text_content),
                                        << <<"a","p","p","r","o","v","e","d">> >>,
                                        << <<"m","e","d","i","u","m">> >>,
                                        << DefaultRowPrefix[type_val] >>,
                                        <<>>,
                                        IF ie_puid # "" THEN <<ie_puid>> ELSE <<>>)
             IN  IF out.raised # ""
                 THEN [objects |-> out.objects, id_map |-> idmap, so_id |-> "",
                       raised |-> out.raised, warnings |-> warns]
                 ELSE [objects |-> out.objects,
                       id_map |-> IF ie_puid # "" THEN (ie_puid :> out.value) @@ idmap
                                  ELSE idmap,
                       so_id |-> out.value, raised |-> "", warnings |-> warns]

\* the same pass resolving the target with the source's key
relation_row_source_twice(rels, idmap, warns, row) ==
    LET rtype == RawType(row.relationtype)
        src_ie == Str(Strip(Chars(row.sourceiepuid)))
        tgt_ie == Str(Strip(Chars(row.targetiepuid)))
        src_id_direct == Str(Strip(Chars(row.source_id)))
        tgt_id_direct == Str(Strip(Chars(row.target_id)))
    IN  IF rtype \notin {"satisfy", "derive", "refine"}
        THEN [relations |-> rels, added |-> 0, raised |-> "",
              warnings |-> Append(warns, "Relation skipped: invalid RelationType 'None'.")]
        ELSE IF src_id_direct # "" /\ tgt_id_direct # ""
        THEN LET out == add_relation(rels, rtype, src_id_direct, tgt_id_direct, <<>>)
             IN  [relations |-> out.relations, added |-> IF out.raised = "" THEN 1 ELSE 0,
                  raised |-> out.raised, warnings |-> warns]
        ELSE IF src_ie = "" \/ tgt_ie = ""
        THEN [relations |-> rels, added |-> 0, raised |-> "",
              warnings |-> Append(warns, "Relation skipped: missing SourceIEPUID/TargetIEPUID and no direct IDs provided.")]
        ELSE IF src_ie \notin DOMAIN idmap \/ tgt_ie \notin DOMAIN idmap
        THEN [relations |-> rels, added |-> 0, raised |-> "",
              warnings |-> Append(warns, "Relation skipped: could not resolve IDs: "
                                          \o src_ie \o " -> " \o tgt_ie \o ".")]
        ELSE LET out == add_relation(rels, rtype, idmap[src_ie], idmap[src_ie], <<>>)
             IN  [relations |-> out.relations, added |-> IF out.raised = "" THEN 1 ELSE 0,
                  raised |-> out.raised, warnings |-> warns]

\* one pass of the loop over the relation rows: the relation list and warnings
\* after it, what it adds to added_rels, and what it raises
relation_row(rels, idmap, warns, row) ==
    LET rtype == RawType(row.relationtype)
        src_ie == Str(Strip(Chars(row.sourceiepuid)))
        tgt_ie == Str(Strip(Chars(row.targetiepuid)))
        src_id_direct == Str(Strip(Chars(row.source_id)))
        tgt_id_direct == Str(Strip(Chars(row.target_id)))
    IN  IF rtype \notin {"satisfy", "derive", "refine"}
        THEN [relations |-> rels, added |-> 0, raised |-> "",
              warnings |-> Append(warns, "Relation skipped: invalid RelationType 'None'.")]
        ELSE IF src_id_direct # "" /\ tgt_id_direct # ""
        THEN LET out == add_relation(rels, rtype, src_id_direct, tgt_id_direct, <<>>)
             IN  [relations |-> out.relations, added |-> IF out.raised = "" THEN 1 ELSE 0,
                  raised |-> out.raised, warnings |-> warns]
        ELSE IF src_ie = "" \/ tgt_ie = ""
        THEN [relations |-> rels, added |-> 0, raised |-> "",
              warnings |-> Append(warns, "Relation skipped: missing SourceIEPUID/TargetIEPUID and no direct IDs provided.")]
        ELSE IF src_ie \notin DOMAIN idmap \/ tgt_ie \notin DOMAIN idmap
        THEN [relations |-> rels, added |-> 0, raised |-> "",
              warnings |-> Append(warns, "Relation skipped: could not resolve IDs: "
                                          \o src_ie \o " -> " \o tgt_ie \o ".")]
        ELSE LET out == add_relation(rels, rtype, idmap[src_ie], idmap[tgt_ie], <<>>)
             IN  [relations |-> out.relations, added |-> IF out.raised = "" THEN 1 ELSE 0,
                  raised |-> out.raised, warnings |-> warns]

\* the sheets main reads
RequirementRow(order, type, ie_puid) ==
    [order |-> order, type |-> type, ie_puid |-> ie_puid, name |-> "Login",
     text |-> <<"-", " ", "a">>]
RelationRow(relationtype, keys, ids) ==
    [relationtype |-> relationtype, sourceiepuid |-> keys[1], targetiepuid |-> keys[2],
     source_id |-> ids[1], target_id |-> ids[2]]

\* Order cells: empty, text, numbers, a number written as text
OrderArgs == {PyStr(""), PyStr("n/a"), PyInt(1), PyStr(" 2 "), PyInt(2000000)}
\* sheets whose i-th row carries the key REQ-i
OrderSheets ==
    UNION { { [i \in 1..n |-> RequirementRow(orders[i], "functional", "REQ-" \o ToString(i))] :
              orders \in [1..n -> OrderArgs] } : n \in 0..MaxOrderRows }

TypeArgs == {"functional", " F ", "NFR", "non-functional", "Functional Requirement",
             "non-functional requirement", "Interface spec", "perf", "security", ""}
TypeSheets ==
    UNION { { [i \in 1..n |-> RequirementRow(PyStr(""), types[i], "REQ-" \o ToString(i))] :
              types \in [1..n -> TypeArgs] } : n \in 0..MaxReqRows }

\* rows with a kind and a key, of no kind, and without a key; a sheet may
\* hold a row twice
KeyedRowArgs ==
    { RequirementRow(PyStr(""), "functional", " REQ-A "),
      RequirementRow(PyStr(""), "interface", "REQ-B"),
      RequirementRow(PyStr(""), "security", "REQ-B"),
      RequirementRow(PyStr(""), "performance", "") }
KeySheets == UNION { [1..n -> KeyedRowArgs] : n \in 0..MaxReqRows }

RelationRowArgs ==
    { RelationRow(relationtype, keys, ids) :
        relationtype \in {"Satisfy", "conflict"},
        keys \in {<<"REQ-A", " REQ-B">>, <<"REQ-A", "REQ-X">>, <<"", "REQ-B">>},
        ids \in {<<"", "">>, <<"SO-F-001", "SO-I-002">>, <<"SO-F-001", "">>} }
RelationSheets == UNION { [1..n -> RelationRowArgs] : n \in 0..MaxRelRows }
OneRelationSheets ==
    { <<>>, << RelationRow("satisfy", <<"REQ-1", "REQ-2">>, <<"", "">>) >> }

\* lines 253-278: the warnings list, the sorted rows, id_map and added_reqs
SortRows ==
    /\ pc = "sort"
    /\ pc' = "requirements"
    /\ req_rows_sorted' = Sorted(req_rows)
    /\ next_row' = 1
    /\ id_map' = <<>>
    /\ warnings' = <<>>
    /\ added_reqs' = 0
    /\ result' = [op |-> "sort", args |-> NoArgs, raised |-> "", value |-> ""]
    /\ UNCHANGED <<req_rows, rel_rows, added_rels, text, out_vars, title, timestamp, spec_objects,
                   spec_relations, encodings, auto_only>>

\* the same pass with added_reqs counted before the type is classified
MapRequirementRowCountingSkipped ==
    /\ pc = "requirements"
    /\ next_row <= Len(req_rows_sorted)
    /\ LET row == req_rows_sorted[next_row]
           out == requirement_row(spec_objects, id_map, warnings, row)
       IN  /\ spec_objects' = out.objects
           /\ id_map' = out.id_map
           /\ warnings' = out.warnings
           /\ added_reqs' = added_reqs + 1
           /\ result' = [op |-> "requirement_row", args |-> [row |-> row],
                         raised |-> out.raised, value |-> out.so_id]
           /\ pc' = IF out.raised = "" THEN pc ELSE "failed"
    /\ next_row' = next_row + 1
    /\ UNCHANGED <<req_rows, rel_rows, req_rows_sorted, added_rels, text, out_vars, title, timestamp,
                   spec_relations, encodings, auto_only>>

\* lines 280-334, one row
MapRequirementRow ==
    /\ pc = "requirements"
    /\ next_row <= Len(req_rows_sorted)
    /\ LET row == req_rows_sorted[next_row]
           out == requirement_row(spec_objects, id_map, warnings, row)
       IN  /\ spec_objects' = out.objects
           /\ id_map' = out.id_map
           /\ warnings' = out.warnings
           /\ added_reqs' = IF out.so_id # "" THEN added_reqs + 1 ELSE added_reqs
           /\ result' = [op |-> "requirement_row", args |-> [row |-> row],
                         raised |-> out.raised, value |-> out.so_id]
           /\ pc' = IF out.raised = "" THEN pc ELSE "failed"
    /\ next_row' = next_row + 1
    /\ UNCHANGED <<req_rows, rel_rows, req_rows_sorted, added_rels, text, out_vars, title, timestamp,
                   spec_relations, encodings, auto_only>>

\* line 337, once the requirement rows are done
StartRelations ==
    /\ pc = "requirements"
    /\ next_row > Len(req_rows_sorted)
    /\ pc' = "relations"
    /\ next_row' = 1
    /\ added_rels' = 0
    /\ result' = [op |-> "start_relations", args |-> NoArgs, raised |-> "", value |-> ""]
    /\ UNCHANGED <<req_rows, rel_rows, req_rows_sorted, id_map, warnings, added_reqs, text, out_vars,
                   title, timestamp, spec_objects, spec_relations, encodings, auto_only>>

\* lines 338-363, one row
MapRelationRow ==
    /\ pc = "relations"
    /\ next_row <= Len(rel_rows)
    /\ LET row == rel_rows[next_row]
           out == relation_row(spec_relations, id_map, warnings, row)
       IN  /\ spec_relations' = out.relations
           /\ warnings' = out.warnings
           /\ added_rels' = added_rels + out.added
           /\ result' = [op |-> "relation_row", args |-> [row |-> row],
                         raised |-> out.raised, value |-> ""]
           /\ pc' = IF out.raised = "" THEN pc ELSE "failed"
    /\ next_row' = next_row + 1
    /\ UNCHANGED <<req_rows, rel_rows, req_rows_sorted, id_map, added_reqs, text, out_vars, title,
                   timestamp, spec_objects, encodings, auto_only>>

\* lines 366-382, once the relation rows are done: the document is written
\* and the summary shown, unless generate raises
MainGenerate ==
    /\ pc = "relations"
    /\ next_row > Len(rel_rows)
    /\ LET out == generate(spec_objects, spec_relations)
       IN  /\ encodings' = encodings \o out.written
           /\ output_file' = Stored(output_file, out)
           /\ previous_file' = output_file
           /\ pc' = IF out.raised = "" THEN "done" ELSE "failed"
           /\ result' = [op |-> "main_generate", args |-> NoArgs, raised |-> out.raised,
                         value |-> ""]
    /\ UNCHANGED <<req_rows, rel_rows, req_rows_sorted, next_row, id_map, warnings,
                   added_reqs, added_rels, text, xml_str, gen_pc, title, timestamp, spec_objects,
                   spec_relations, auto_only>>

\* ------------------------------------------- the output path, step by step
\* where an exception that leaves generate() takes the caller: a script using
\* the generator goes on, main() catches nothing and ends
Escaped(at) == IF at = "idle" THEN "idle" ELSE "failed"

\* the sheets of the workbooks read below
WorkbookSheets ==
    { <<>>,
      << RequirementRow(PyStr(""), "functional", "REQ-1") >>,
      << RequirementRow(PyStr(""), "functional", "REQ-1"),
         RequirementRow(PyStr(""), "security", "REQ-2") >> }

\* lines 215-228: no file picked, or none at the path, ends the run
PickFile ==
    /\ pc = "pick"
    /\ \E picked \in BOOLEAN :
          /\ pc' = IF picked THEN "load" ELSE "failed"
          /\ result' = [op |-> "pick_excel_file", args |-> NoArgs,
                        raised |-> IF picked THEN "" ELSE "SystemExit", value |-> ""]
    /\ UNCHANGED <<req_rows, rel_rows, req_rows_sorted, next_row, id_map, warnings,
                   added_reqs, added_rels, text, out_vars, title, timestamp, spec_objects,
                   spec_relations, encodings, auto_only>>

\* lines 230-251: the workbook is read, or the run ends
LoadExcel ==
    /\ pc = "load"
    /\ \/ /\ pc' = "sort"
          /\ req_rows' \in WorkbookSheets
          /\ rel_rows' \in OneRelationSheets
          /\ result' = [op |-> "read_excel", args |-> NoArgs, raised |-> "", value |-> ""]
       \/ /\ pc' = "failed"
          /\ UNCHANGED <<req_rows, rel_rows>>
          /\ result' = [op |-> "read_excel", args |-> NoArgs, raised |-> "SystemExit",
                        value |-> ""]
    /\ UNCHANGED <<req_rows_sorted, next_row, id_map, warnings, added_reqs, added_rels, text,
                   out_vars, title, timestamp, spec_objects, spec_relations, encodings,
                   auto_only>>

\* generate lines 451-497: the tree is built and serialized into xml_str, for
\* a script that calls generate() or for main() once its rows are done
RenderDocument ==
    /\ gen_pc = "idle"
    /\ pc = "idle" \/ (pc = "relations" /\ next_row > Len(rel_rows))
    /\ Len(encodings) < MaxEncodings
    /\ previous_file' = output_file
    /\ LET out == generate(spec_objects, spec_relations)
       IN  /\ xml_str' = out.written
           /\ gen_pc' = IF out.raised = "" THEN "rendered" ELSE "idle"
           /\ pc' = IF out.raised = "" THEN pc ELSE Escaped(pc)
           /\ result' = [op |-> "render", args |-> NoArgs, raised |-> out.raised,
                         value |-> ""]
    /\ UNCHANGED <<req_rows, rel_rows, req_rows_sorted, next_row, id_map, warnings,
                   added_reqs, added_rels, text, output_file, title, timestamp, spec_objects,
                   spec_relations, encodings, auto_only>>

\* generate line 500: open(output_file, 'wb') empties the path, or is refused
OpenOutput ==
    /\ gen_pc = "rendered"
    /\ \/ /\ output_file' = EmptyFile
          /\ gen_pc' = "open"
          /\ result' = [op |-> "open", args |-> NoArgs, raised |-> "", value |-> ""]
          /\ UNCHANGED <<xml_str, pc>>
       \/ /\ gen_pc' = "idle"
          /\ xml_str' = <<>>
          /\ pc' = Escaped(pc)
          /\ result' = [op |-> "open", args |-> NoArgs, raised |-> "OSError", value |-> ""]
          /\ UNCHANGED output_file
    /\ UNCHANGED <<req_rows, rel_rows, req_rows_sorted, next_row, id_map, warnings,
                   added_reqs, added_rels, text, previous_file, title, timestamp,
                   spec_objects, spec_relations, encodings, auto_only>>

\* generate line 501: f.write(xml_str) stores every chunk, or the file system
\* refuses one and the with statement closes the file on what was stored
WriteOutput ==
    /\ gen_pc = "open"
    /\ \E chunks \in 0..MaxChunks :
          /\ output_file' = FileOf(xml_str, chunks)
          /\ IF chunks = MaxChunks
             THEN /\ gen_pc' = "written"
                  /\ result' = [op |-> "write", args |-> NoArgs, raised |-> "", value |-> ""]
                  /\ UNCHANGED <<xml_str, pc>>
             ELSE /\ gen_pc' = "idle"
                  /\ xml_str' = <<>>
                  /\ pc' = Escaped(pc)
                  /\ result' = [op |-> "write", args |-> NoArgs, raised |-> "OSError",
                                value |-> ""]
    /\ UNCHANGED <<req_rows, rel_rows, req_rows_sorted, next_row, id_map, warnings,
                   added_reqs, added_rels, text, previous_file, title, timestamp,
                   spec_objects, spec_relations, encodings, auto_only>>

\* the end of the with statement of lines 500-501: the file is closed
CloseOutput ==
    /\ gen_pc = "written"
    /\ gen_pc' = "closed"
    /\ result' = [op |-> "close", args |-> NoArgs, raised |-> "", value |-> ""]
    /\ UNCHANGED <<main_vars, text, output_file, previous_file, xml_str, title, timestamp,
                   spec_objects, spec_relations, encodings, auto_only>>

\* generate line 503, and lines 370-382 when main() called it: the messages
\* that the file was generated
ReportGenerated ==
    /\ gen_pc = "closed"
    /\ gen_pc' = "idle"
    /\ encodings' = encodings \o xml_str
    /\ xml_str' = <<>>
    /\ pc' = IF pc = "idle" THEN pc ELSE "done"
    /\ result' = [op |-> "generate", args |-> NoArgs, raised |-> "", value |-> ""]
    /\ UNCHANGED <<req_rows, rel_rows, req_rows_sorted, next_row, id_map, warnings,
                   added_reqs, added_rels, text, output_file, previous_file, title, timestamp,
                   spec_objects, spec_relations, auto_only>>

\* ------------------------------------------------------------ specification
Init ==
    /\ title = "System Requirements Specification"
    /\ timestamp \in ClockReadings
    /\ spec_objects = <<>>
    /\ spec_relations = <<>>
    /\ result = NoCall
    /\ encodings = <<>>
    /\ auto_only = TRUE
    /\ text = <<>>
    /\ MainIdle
    /\ OutputIdle

\* calls that leave status and priority to the defaults, with or without an
\* identifier of the caller's
Next ==
    \/ \E req_type \in ReqTypeArgs, foreign_id \in ForeignIdArgs, name \in NameArgs,
          chapter \in ChapterArgs, description \in DescriptionArgs,
          text_content \in TextContentArgs, req_prefix \in ReqPrefixArgs,
          identifier \in IdentifierArgs, ie_puid \in IePuidArgs :
          AddRequirement(req_type, foreign_id, name, chapter, description,
                         text_content, <<>>, <<>>, req_prefix, identifier, ie_puid)
    \/ \E relation_type \in RelationTypeArgs, source_id \in SourceIdArgs,
          target_id \in TargetIdArgs, identifier \in RelIdentifierArgs :
          AddRelation(relation_type, source_id, target_id, identifier)
    \/ Generate

Spec == Init /\ [][Next]_vars

\* calls that leave the identifier to the generator, with any status and priority
NextEnum ==
    \/ \E req_type \in ReqTypeArgs, foreign_id \in ForeignIdArgs, name \in NameArgs,
          chapter \in ChapterArgs, description \in DescriptionArgs,
          text_content \in TextContentArgs, status \in StatusArgs,
          priority \in PriorityArgs, req_prefix \in ReqPrefixArgs,
          ie_puid \in IePuidArgs :
          AddRequirement(req_type, foreign_id, name, chapter, description,
                         text_content, status, priority, req_prefix, <<>>, ie_puid)
    \/ Generate

SpecEnum == Init /\ [][NextEnum]_vars

\* the same generator built at either of two moments
InitClock ==
    /\ title = "System Requirements Specification"
    /\ timestamp \in ClockReadings \cup {"2026-11-05T09:30:00Z"}
    /\ spec_objects = <<>>
    /\ spec_relations = <<>>
    /\ result = NoCall
    /\ encodings = <<>>
    /\ auto_only = TRUE
    /\ text = <<>>
    /\ MainIdle
    /\ OutputIdle

NextClock ==
    \/ \E req_type \in ReqTypeArgs, foreign_id \in ForeignIdArgs, name \in NameArgs,
          chapter \in ChapterArgs, description \in DescriptionArgs,
          text_content \in TextContentArgs, req_prefix \in ReqPrefixArgs,
          ie_puid \in IePuidArgs :
          AddRequirement(req_type, foreign_id, name, chapter, description,
                         text_content, <<>>, <<>>, req_prefix, <<>>, ie_puid)
    \/ \E relation_type \in RelationTypeArgs, source_id \in SourceIdArgs,
          target_id \in TargetIdArgs, identifier \in RelIdentifierArgs :
          AddRelation(relation_type, source_id, target_id, identifier)
    \/ Generate

SpecClock == InitClock /\ [][NextClock]_vars

\* calls with or without a chapter, with the body text as a str or as the
\* Element the converter builds
ChapterOrNoneArgs == {PyStr("Chapter 1.1"), PyNone}
BodyTextArgs ==
    {PyStr("The system shall authenticate users."),
     PyElement(build_xhtml_from_text(<<"-", " ", "a", "\n", "\n", "b">>))}

NextEncode ==
    \/ \E req_type \in {"functional", "security"}, foreign_id \in ForeignIdArgs,
          name \in NameArgs, chapter \in ChapterOrNoneArgs, description \in DescriptionArgs,
          text_content \in BodyTextArgs, req_prefix \in ReqPrefixArgs, ie_puid \in IePuidArgs :
          AddRequirement(req_type, foreign_id, name, chapter, description,
                         text_content, <<>>, <<>>, req_prefix, <<>>, ie_puid)
    \/ \E relation_type \in RelationTypeArgs, source_id \in SourceIdArgs,
          target_id \in TargetIdArgs, identifier \in RelIdentifierArgs :
          AddRelation(relation_type, source_id, target_id, identifier)
    \/ Generate

SpecEncode == Init /\ [][NextEncode]_vars

\* the converter applied to one text
InitConvert ==
    /\ title = "System Requirements Specification"
    /\ timestamp \in ClockReadings
    /\ spec_objects = <<>>
    /\ spec_relations = <<>>
    /\ result = NoCall
    /\ encodings = <<>>
    /\ auto_only = TRUE
    /\ text \in TextArgs
    /\ MainIdle
    /\ OutputIdle

NextConvert == BuildXhtmlFromText

SpecConvert == InitConvert /\ [][NextConvert]_vars

\* main() once the sheets are read and the generator is built
InitMain(requirement_sheets, relation_sheets) ==
    /\ title = "System Requirements Specification"
    /\ timestamp \in ClockReadings
    /\ spec_objects = <<>>
    /\ spec_relations = <<>>
    /\ result = NoCall
    /\ encodings = <<>>
    /\ auto_only = TRUE
    /\ text = <<>>
    /\ OutputIdle
    /\ pc = "sort"
    /\ req_rows \in requirement_sheets
    /\ rel_rows \in relation_sheets
    /\ req_rows_sorted = <<>>
    /\ next_row = 1
    /\ id_map = <<>>
    /\ warnings = <<>>
    /\ added_reqs = 0
    /\ added_rels = 0

NextMain ==
    \/ SortRows
    \/ MapRequirementRow
    \/ StartRelations
    \/ MapRelationRow
    \/ MainGenerate

\* main() on sheets that differ in their Order cells, in their Type cells, and
\* in their keys and relation rows
InitOrder == InitMain(OrderSheets, OneRelationSheets)
SpecOrder == InitOrder /\ [][NextMain]_vars

InitTypes == InitMain(TypeSheets, OneRelationSheets)
SpecTypes == InitTypes /\ [][NextMain]_vars

InitKeys == InitMain(KeySheets, RelationSheets)
SpecKeys == InitKeys /\ [][NextMain]_vars

\* a script that fills a generator and calls generate(), or a run of main(),
\* over an output path that holds nothing or an earlier file, with a file
\* system that may refuse to open and to write
InitOutput ==
    /\ title = "System Requirements Specification"
    /\ timestamp \in ClockReadings
    /\ spec_objects = <<>>
    /\ spec_relations = <<>>
    /\ result = NoCall
    /\ encodings = <<>>
    /\ auto_only = TRUE
    /\ text = <<>>
    /\ pc \in {"idle", "pick"}
    /\ req_rows = <<>>
    /\ rel_rows = <<>>
    /\ req_rows_sorted = <<>>
    /\ next_row = 1
    /\ id_map = <<>>
    /\ warnings = <<>>
    /\ added_reqs = 0
    /\ added_rels = 0
    /\ output_file \in {NoFile, ForeignFile}
    /\ previous_file = output_file
    /\ xml_str = <<>>
    /\ gen_pc = "idle"

NextOutput ==
    \/ /\ pc = "idle"
       /\ gen_pc = "idle"
       /\ \E req_type \in {"functional", "security"}, foreign_id \in ForeignIdArgs,
             name \in NameArgs, chapter \in ChapterOrNoneArgs,
             description \in DescriptionArgs, text_content \in TextContentArgs,
             req_prefix \in ReqPrefixArgs, ie_puid \in IePuidArgs :
             AddRequirement(req_type, foreign_id, name, chapter, description,
                            text_content, <<>>, <<>>, req_prefix, <<>>, ie_puid)
    \/ PickFile
    \/ LoadExcel
    \/ SortRows
    \/ MapRequirementRow
    \/ StartRelations
    \/ MapRelationRow
    \/ RenderDocument
    \/ OpenOutput
    \/ WriteOutput
    \/ CloseOutput
    \/ ReportGenerated

SpecOutput == InitOutput /\ [][NextOutput]_vars

\* ------------------------------------------------------------------ claims
ReqKinds == {"functional", "interface", "performance"}
RelKinds == {"satisfy", "derive", "refine"}

Added == result.op = "add_requirement" /\ result.raised = ""
LastObject == spec_objects[Len(spec_objects)]

PairwiseDistinct(seq) == \A i, j \in DOMAIN seq : i # j => seq[i] # seq[j]
Identifiers(seq) == [i \in DOMAIN seq |-> seq[i].identifier]

\* C1: a call of add_requirement with a kind outside functional/interface/
\* performance, or of add_relation with a kind outside satisfy/derive/refine,
\* raises and leaves the object list and the relation list as they were.
C1_InvalidKindLeavesDocument ==
    [][ ( \/ (result'.op = "add_requirement" /\ result'.args.kind \notin ReqKinds)
          \/ (result'.op = "add_relation" /\ result'.args.kind \notin RelKinds) )
        => /\ result'.raised = "ValueError"
           /\ spec_objects' = spec_objects
           /\ spec_relations' = spec_relations ]_vars

C1_Witness ==
    /\ result.raised = "ValueError"
    /\ Len(spec_objects) + Len(spec_relations) > 0

\* C2: when every registered object was added without an identifier argument,
\* whatever the kinds, the identifiers of the registered objects are pairwise
\* distinct.
C2_AutoIdentifiersDistinct ==
    auto_only => PairwiseDistinct(Identifiers(spec_objects))

C2_Witness ==
    /\ auto_only
    /\ Len(spec_objects) >= 2
    /\ spec_objects[1].type_ref # spec_objects[2].type_ref

\* C3: in every reachable document, whether identifiers were supplied or
\* generated, no two registered objects have the same identifier.
C3_IdentifiersDistinct == PairwiseDistinct(Identifiers(spec_objects))

\* the enumeration values the schema section of an encoding declares
DeclaredEnumValues(enc, datatype) ==
    UNION { {enc.datatypes[d].values[v].identifier : v \in DOMAIN enc.datatypes[d].values} :
            d \in {d \in DOMAIN enc.datatypes : enc.datatypes[d].identifier = datatype} }

\* the value an object block gives to the attribute named by `suffix`
ValuesFor(block, suffix) ==
    { block.values[v].the_value :
        v \in {v \in DOMAIN block.values :
                 block.values[v].definition \in {k \o suffix : k \in {"F", "I", "P"}}} }

StatusNames == {<<"d","r","a","f","t">>, <<"w","i","p">>,
                <<"r","e","v","i","e","w","e","d">>, <<"a","p","p","r","o","v","e","d">>}
PriorityNames == {<<"h","i","g","h">>, <<"m","e","d","i","u","m">>, <<"l","o","w">>}
StatusEnum == {"EV-STATUS-DRAFT", "EV-STATUS-WIP", "EV-STATUS-REVIEWED", "EV-STATUS-APPROVED"}
PriorityEnum == {"EV-PRIO-HIGH", "EV-PRIO-MEDIUM", "EV-PRIO-LOW"}

\* C4: every stored status is one of the four status enumeration values and
\* every stored priority one of the three priority enumeration values; a call
\* whose status names none of draft/wip/reviewed/approved stores approved, one
\* whose priority names none of high/medium/low stores medium; and every
\* encoded status and priority value is an enumeration value.
C4_EnumValuesOnly ==
    /\ \A i \in DOMAIN spec_objects :
          /\ spec_objects[i].status \in StatusEnum
          /\ spec_objects[i].priority \in PriorityEnum
    /\ Added =>
          /\ (result.args.status # <<>> /\ Lower(result.args.status[1]) \notin StatusNames)
                => LastObject.status = "EV-STATUS-APPROVED"
          /\ (result.args.priority # <<>> /\ Lower(result.args.priority[1]) \notin PriorityNames)
                => LastObject.priority = "EV-PRIO-MEDIUM"
    /\ \A e \in DOMAIN encodings : \A i \in DOMAIN encodings[e].spec_objects :
          /\ ValuesFor(encodings[e].spec_objects[i], "-AD-STATUS") \subseteq StatusEnum
          /\ ValuesFor(encodings[e].spec_objects[i], "-AD-PRIORITY") \subseteq PriorityEnum

C4_Witness ==
    /\ Added
    /\ result.args.status = << <<"o","b","s","o","l","e","t","e">> >>
    /\ result.args.priority = << <<"u","r","g","e","n","t">> >>

\* C5: a call that leaves priority unset registers the object with priority
\* medium, and a call that leaves status unset registers it with status
\* approved.
C5_UnsetDefaults ==
    Added =>
        /\ result.args.priority = <<>> => LastObject.priority = "EV-PRIO-MEDIUM"
        /\ result.args.status = <<>> => LastObject.status = "EV-STATUS-APPROVED"

\* C6: add_relation with a kind among satisfy/derive/refine returns normally
\* for any source and target and appends exactly one edge carrying them; an
\* encoding has one relation block per edge, in registration order, whose
\* source and target are the edge's identifiers unchanged.
C6_RelationsVerbatim ==
    /\ [][ (result'.op = "add_relation" /\ result'.args.kind \in RelKinds)
           => /\ result'.raised = ""
              /\ Len(spec_relations') = Len(spec_relations) + 1
              /\ SubSeq(spec_relations', 1, Len(spec_relations)) = spec_relations
              /\ spec_relations'[Len(spec_relations')].source = result'.args.source_id
              /\ spec_relations'[Len(spec_relations')].target = result'.args.target_id ]_vars
    /\ [](\A e \in DOMAIN encodings :
            /\ Len(encodings[e].spec_relations) = Len(spec_relations)
            /\ \A i \in DOMAIN spec_relations :
                  /\ encodings[e].spec_relations[i].identifier = spec_relations[i].identifier
                  /\ encodings[e].spec_relations[i].source = spec_relations[i].source
                  /\ encodings[e].spec_relations[i].target = spec_relations[i].target)

C6_Witness ==
    /\ encodings # <<>>
    /\ Len(spec_relations) = 2
    /\ spec_relations[1].source = "SO-X-404"
    /\ spec_relations[1] # spec_relations[2]
    /\ spec_objects = <<>>

\* the object type an encoding declares under `type_ref`
DeclaredTypes(enc, type_ref) ==
    { enc.spec_types[t] :
        t \in {t \in DOMAIN enc.spec_types :
                 /\ enc.spec_types[t].tag = "SPEC-OBJECT-TYPE"
                 /\ enc.spec_types[t].identifier = type_ref} }

Definitions(block) == [v \in DOMAIN block.values |-> block.values[v].definition]

\* C7: in every encoded object block the attribute values come in the order
\* in which the block's object type declares its attribute definitions:
\* ForeignID, Name, IE PUID, ChapterName, Description, Prefix, Text, Status,
\* Priority.
C7_ValuesInDeclaredOrder ==
    \A e \in DOMAIN encodings : \A i \in DOMAIN encodings[e].spec_objects :
        \A t \in DeclaredTypes(encodings[e], encodings[e].spec_objects[i].type_ref) :
            Definitions(encodings[e].spec_objects[i]) = Identifiers(t.attributes)

TypeOfKind == [k \in ReqKinds |->
                 CASE k = "functional" -> "T-REQ-FUNCTIONAL"
                   [] k = "interface" -> "T-REQ-INTERFACE"
                   [] k = "performance" -> "T-REQ-PERFORMANCE"]
LetterOfType == [t \in {"T-REQ-FUNCTIONAL", "T-REQ-INTERFACE", "T-REQ-PERFORMANCE"} |->
                   CASE t = "T-REQ-FUNCTIONAL" -> "F"
                     [] t = "T-REQ-INTERFACE" -> "I"
                     [] t = "T-REQ-PERFORMANCE" -> "P"]
AttributeSuffixes == {"-AD-FOREIGNID", "-AD-NAME", "-AD-IEPUID", "-AD-CHAP", "-AD-DESC",
                      "-AD-PREFIX", "-AD-TEXT", "-AD-STATUS", "-AD-PRIORITY"}
DeclaredRelationTypes(enc) ==
    { enc.spec_types[t].identifier :
        t \in {t \in DOMAIN enc.spec_types : enc.spec_types[t].tag = "SPEC-RELATION-TYPE"} }

\* C8: a registered object carries the object type of its kind, and its
\* encoded block references that type, declared exactly once in the schema
\* section, with exactly one value for each of the nine attributes, each
\* referencing an attribute definition <F|I|P>-AD-* declared inside that type;
\* its status and priority values are enumeration values the schema section
\* declares, and every relation block references a declared relation type.
C8_ReferencesDeclared ==
    /\ Added => LastObject.type_ref = TypeOfKind[result.args.kind]
    /\ \A e \in DOMAIN encodings :
          /\ Len(encodings[e].spec_objects) = Len(spec_objects)
          /\ \A i \in DOMAIN encodings[e].spec_objects :
                LET block == encodings[e].spec_objects[i]
                    types == DeclaredTypes(encodings[e], block.type_ref)
                IN  /\ block.type_ref = spec_objects[i].type_ref
                    /\ Cardinality(types) = 1
                    /\ Len(block.values) = 9
                    /\ PairwiseDistinct(Definitions(block))
                    /\ \A t \in types :
                          /\ {block.values[v].definition : v \in DOMAIN block.values}
                                = {t.attributes[a].identifier : a \in DOMAIN t.attributes}
                          /\ {t.attributes[a].identifier : a \in DOMAIN t.attributes}
                                = {LetterOfType[block.type_ref] \o x : x \in AttributeSuffixes}
                    /\ ValuesFor(block, "-AD-STATUS") \subseteq DeclaredEnumValues(encodings[e], "DT-STATUS")
                    /\ ValuesFor(block, "-AD-PRIORITY") \subseteq DeclaredEnumValues(encodings[e], "DT-PRIORITY")
                    /\ ValuesFor(block, "-AD-STATUS") # {}
                    /\ ValuesFor(block, "-AD-PRIORITY") # {}
          /\ \A i \in DOMAIN encodings[e].spec_relations :
                encodings[e].spec_relations[i].type_ref \in DeclaredRelationTypes(encodings[e])

C8_Witness ==
    /\ encodings # <<>>
    /\ Len(spec_objects) = 2
    /\ spec_objects[1].type_ref = "T-REQ-INTERFACE"
    /\ spec_objects[2].type_ref = "T-REQ-PERFORMANCE"

ExpectedHierarchyIds == <<"SH-001", "SH-002", "SH-003", "SH-004", "SH-005">>

\* C9: add_requirement returns the identifier of the object it appended, and
\* the specification block of an encoding has one hierarchy entry per
\* registered object: the i-th entry is named SH-<i>, i written with three
\* digits, and references the i-th object's identifier, so the entries are
\* pairwise distinct and follow the order of registration.
C9_HierarchyInInsertionOrder ==
    /\ Added => LastObject.identifier = result.value
    /\ \A e \in DOMAIN encodings :
          LET children == encodings[e].specifications.children
          IN  /\ Len(children) = Len(spec_objects)
              /\ PairwiseDistinct(Identifiers(children))
              /\ \A i \in DOMAIN children :
                    /\ children[i].identifier = ExpectedHierarchyIds[i]
                    /\ children[i].object = spec_objects[i].identifier

C9_Witness ==
    /\ encodings # <<>>
    /\ Len(spec_objects) = 2
    /\ spec_objects[1].identifier = "SO-F-002"
    /\ spec_objects[2].identifier = "SO-P-002"

WithoutCreationTime(enc) == [enc EXCEPT !.header.creation_time = ""]

\* C10: the encodings of one document state, with no add operation between
\* them, are identical apart from the header's creation time, and generate
\* leaves the object list and the relation list as they were.
C10_EncodingRepeatable ==
    /\ [][ result'.op = "generate"
           => spec_objects' = spec_objects /\ spec_relations' = spec_relations ]_vars
    /\ [](\A e, f \in DOMAIN encodings :
            WithoutCreationTime(encodings[e]) = WithoutCreationTime(encodings[f]))

C10_Witness ==
    /\ Len(encodings) = 2
    /\ Len(spec_objects) = 1
    /\ Len(spec_relations) = 1

\* the LAST-CHANGE attributes of an encoding's object, relation, specification
\* and hierarchy elements
LastChanges(enc) ==
    {enc.spec_objects[i].last_change : i \in DOMAIN enc.spec_objects}
    \cup {enc.spec_relations[i].last_change : i \in DOMAIN enc.spec_relations}
    \cup {enc.specifications.last_change}
    \cup {enc.specifications.children[i].last_change : i \in DOMAIN enc.specifications.children}

\* the paragraphs of the XHTML values and the other attribute values of a block
XhtmlTexts(block) ==
    UNION { {block.values[v].the_value.div[k].p : k \in DOMAIN block.values[v].the_value.div} :
            v \in {v \in DOMAIN block.values : block.values[v].tag = "ATTRIBUTE-VALUE-XHTML"} }
PlainValues(block) ==
    { block.values[v].the_value :
        v \in {v \in DOMAIN block.values : block.values[v].tag # "ATTRIBUTE-VALUE-XHTML"} }
ValueDefinitions(block) == {block.values[v].definition : v \in DOMAIN block.values}

\* every string of an encoding's header and content sections other than the
\* header's creation time and the LAST-CHANGE attributes
OtherStrings(enc) ==
    {enc.header.identifier, enc.header.req_if_tool_id, enc.header.req_if_version,
     enc.header.source_tool_id, enc.header.title}
    \cup UNION { {enc.spec_objects[i].identifier, enc.spec_objects[i].type_ref}
                 \cup XhtmlTexts(enc.spec_objects[i])
                 \cup PlainValues(enc.spec_objects[i])
                 \cup ValueDefinitions(enc.spec_objects[i]) : i \in DOMAIN enc.spec_objects }
    \cup UNION { {enc.spec_relations[i].identifier, enc.spec_relations[i].type_ref,
                  enc.spec_relations[i].source, enc.spec_relations[i].target} :
                 i \in DOMAIN enc.spec_relations }
    \cup {enc.specifications.identifier, enc.specifications.long_name,
          enc.specifications.type_ref}
    \cup XhtmlTexts(enc.specifications) \cup PlainValues(enc.specifications)
    \cup ValueDefinitions(enc.specifications)
    \cup UNION { {enc.specifications.children[i].identifier,
                  enc.specifications.children[i].object} :
                 i \in DOMAIN enc.specifications.children }

\* C11 as stated: the clock reading taken at construction appears in the
\* header of an encoding and in no object, relation, specification or
\* hierarchy element of it.
C11_ClockOnlyInHeader ==
    \A e \in DOMAIN encodings :
        /\ encodings[e].header.creation_time = timestamp
        /\ timestamp \notin LastChanges(encodings[e])

\* C11: the clock reading taken at construction is the header's creation time
\* and the LAST-CHANGE attribute of every object, relation, specification and
\* hierarchy element of an encoding, and appears nowhere else in it, so that
\* documents built by the same add calls at different times differ in those
\* attributes only.
C11_ClockInHeaderAndLastChange ==
    \A e \in DOMAIN encodings :
        /\ encodings[e].header.creation_time = timestamp
        /\ LastChanges(encodings[e]) = {timestamp}
        /\ timestamp \notin OtherStrings(encodings[e])

C11_Witness ==
    /\ encodings # <<>>
    /\ timestamp \notin ClockReadings
    /\ Len(spec_objects) = 1
    /\ Len(spec_relations) = 1

Converted == result.op = "build_xhtml_from_text"

\* the lists and the paragraphs of a fragment, in their order, and the kind of
\* each block
Lists(div) == SelectSeq(div, LAMBDA b : "ul" \in DOMAIN b)
Paragraphs(div) == SelectSeq(div, LAMBDA b : "p" \in DOMAIN b)
BlockKinds(div) == [i \in DOMAIN div |-> IF "ul" \in DOMAIN div[i] THEN "marked" ELSE "unmarked"]

\* the lines of the input after line-ending normalization
InputLines == SplitLines(text)

Marked(line) == Len(line) >= 2 /\ line[1] = "-" /\ line[2] = " "
Blank(line) == \A i \in DOMAIN line : line[i] \in Whitespace
LineKind(line) ==
    IF Blank(line) THEN "blank" ELSE IF Marked(line) THEN "marked" ELSE "unmarked"
\* the same classification made on the right-trimmed line
TrimmedLineKind(line) == LineKind(RStrip(line))

\* the maximal runs of consecutive lines of one kind, blank runs left out, in
\* line order
RunEnd(kinds, i) ==
    CHOOSE j \in i..Len(kinds) :
        /\ \A k \in i..j : kinds[k] = kinds[i]
        /\ j = Len(kinds) \/ kinds[j + 1] # kinds[i]
RECURSIVE RunsFrom(_, _)
RunsFrom(kinds, i) ==
    IF i > Len(kinds) THEN <<>>
    ELSE LET j == RunEnd(kinds, i)
         IN  IF kinds[i] = "blank" THEN RunsFrom(kinds, j + 1)
             ELSE <<[kind |-> kinds[i], first |-> i, last |-> j]>> \o RunsFrom(kinds, j + 1)
Runs(kinds) == RunsFrom(kinds, 1)
RunsOfKind(kinds, kind) == SelectSeq(Runs(kinds), LAMBDA r : r.kind = kind)
RunKinds(kinds) == [i \in DOMAIN Runs(kinds) |-> Runs(kinds)[i].kind]

\* the list of a run of marked lines and the paragraph of a run of unmarked ones
ListOfRun(lines, run) ==
    [ul |-> [k \in 1..(run.last - run.first + 1) |->
               Strip(SubSeq(lines[run.first + k - 1], 3, Len(lines[run.first + k - 1])))]]
ParagraphOfRun(lines, run) ==
    [p |-> Strip(JoinLf([k \in 1..(run.last - run.first + 1) |->
                           RStrip(lines[run.first + k - 1])]))]

InputKinds == [i \in DOMAIN InputLines |-> LineKind(InputLines[i])]
TrimmedInputKinds == [i \in DOMAIN InputLines |-> TrimmedLineKind(InputLines[i])]

\* C12: for a non-empty text the fragment holds a list if and only if some
\* line of the text, after line-ending normalization, starts with "- ".
C12_ListIffMarkedLine ==
    (Converted /\ text # <<>>) =>
        ( Lists(result.value) # <<>>
          <=> \E i \in DOMAIN InputLines : Marked(InputLines[i]) )

\* C13: the lists of the fragment are, in order, one list per maximal run of
\* consecutive lines starting with "- ", holding one item per line of the run:
\* the text after the marker, trimmed.
C13_OneListPerMarkedRun ==
    (Converted /\ text # <<>>) =>
        Lists(result.value)
          = [r \in DOMAIN RunsOfKind(InputKinds, "marked") |->
               ListOfRun(InputLines, RunsOfKind(InputKinds, "marked")[r])]

\* the same statement for the lines that still start with "- " once
\* right-trimmed
ListPerTrimmedMarkedRun ==
    (Converted /\ text # <<>>) =>
        Lists(result.value)
          = [r \in DOMAIN RunsOfKind(TrimmedInputKinds, "marked") |->
               ListOfRun(InputLines, RunsOfKind(TrimmedInputKinds, "marked")[r])]

\* C14: for the empty text the fragment is exactly one paragraph, whose text
\* is empty.
C14_EmptyTextOneEmptyParagraph ==
    (Converted /\ text = <<>>) => result.value = << [p |-> <<>>] >>

C14_Witness == Converted /\ text = <<>>

\* C15: the paragraphs of the fragment are, in order, one paragraph per
\* maximal run of consecutive non-blank lines not starting with "- ", its
\* text the right-trimmed lines joined with "\n" and trimmed, the last run
\* included; and the blocks of the fragment follow the order of the runs.
C15_OneParagraphPerUnmarkedRun ==
    (Converted /\ text # <<>>) =>
        /\ Paragraphs(result.value)
             = [r \in DOMAIN RunsOfKind(InputKinds, "unmarked") |->
                  ParagraphOfRun(InputLines, RunsOfKind(InputKinds, "unmarked")[r])]
        /\ BlockKinds(result.value) = RunKinds(InputKinds)

\* the same statement for the lines classified once right-trimmed
ParagraphPerTrimmedUnmarkedRun ==
    (Converted /\ text # <<>>) =>
        /\ Paragraphs(result.value)
             = [r \in DOMAIN RunsOfKind(TrimmedInputKinds, "unmarked") |->
                  ParagraphOfRun(InputLines, RunsOfKind(TrimmedInputKinds, "unmarked")[r])]
        /\ BlockKinds(result.value) = RunKinds(TrimmedInputKinds)

\* the requirement row or relation row a step has just handled
RequirementRowStep == result'.op = "requirement_row" /\ next_row' = next_row + 1
RelationRowStep == result'.op = "relation_row" /\ next_row' = next_row + 1
HandledRow == result'.args.row
StrippedKey(cell) == Str(Strip(Chars(cell)))

\* a Relations row that gives both business keys, no direct identifier, and a
\* relation kind the generator knows
KeysOnly(row) ==
    /\ RawType(row.relationtype) \in RelKinds
    /\ StrippedKey(row.sourceiepuid) # "" /\ StrippedKey(row.targetiepuid) # ""
    /\ StrippedKey(row.source_id) = "" /\ StrippedKey(row.target_id) = ""

\* the identifiers add_requirement returned for the rows carrying a key
IdentifiersOfKey(objs, key) ==
    { objs[i].identifier : i \in {i \in DOMAIN objs : objs[i].ie_puid = key} }
BusinessKeys(objs) == [i \in DOMAIN objs |-> objs[i].ie_puid]

\* C16: a registered row's object carries the identifier add_requirement
\* returned and the row's business key; when the business keys of the
\* registered rows are pairwise distinct, a Relations row giving business keys
\* and no direct identifier appends exactly one relation, from the identifier
\* returned for the source key to the one returned for the target key, if
\* both keys belong to registered rows, and none otherwise; and the document
\* written has one relation block per registered relation, with its source
\* and target.
C16_KeysResolveToReturnedIdentifiers ==
    /\ [][ (RequirementRowStep /\ result'.value # "")
           => /\ Len(spec_objects') = Len(spec_objects) + 1
              /\ spec_objects'[Len(spec_objects')].identifier = result'.value
              /\ StrippedKey(HandledRow.ie_puid) # ""
                   => spec_objects'[Len(spec_objects')].ie_puid = StrippedKey(HandledRow.ie_puid) ]_vars
    /\ [][ (RelationRowStep /\ KeysOnly(HandledRow) /\ PairwiseDistinct(BusinessKeys(spec_objects)))
           => LET sources == IdentifiersOfKey(spec_objects, StrippedKey(HandledRow.sourceiepuid))
                  targets == IdentifiersOfKey(spec_objects, StrippedKey(HandledRow.targetiepuid))
              IN  IF sources # {} /\ targets # {}
                  THEN /\ Len(spec_relations') = Len(spec_relations) + 1
                       /\ SubSeq(spec_relations', 1, Len(spec_relations)) = spec_relations
                       /\ {spec_relations'[Len(spec_relations')].source} = sources
                       /\ {spec_relations'[Len(spec_relations')].target} = targets
                  ELSE spec_relations' = spec_relations ]_vars
    /\ [](pc = "done" =>
            /\ Len(encodings) = 1
            /\ Len(encodings[1].spec_relations) = Len(spec_relations)
            /\ \A i \in DOMAIN spec_relations :
                  /\ encodings[1].spec_relations[i].source = spec_relations[i].source
                  /\ encodings[1].spec_relations[i].target = spec_relations[i].target)

C16_Witness ==
    /\ pc = "done"
    /\ Len(spec_objects) = 2
    /\ Len(rel_rows) = 1
    /\ KeysOnly(rel_rows[1])
    /\ Len(spec_relations) = 1
    /\ spec_relations[1].source = "SO-F-001"
    /\ spec_relations[1].target = "SO-I-002"

\* the row of the sheet an object was registered from, and its position
SheetPosition(obj) == CHOOSE k \in DOMAIN req_rows : req_rows[k].ie_puid = obj.ie_puid
HasOrder(row) == IntOf(row.order) # <<>>
OrderOf(row) == IntOf(row.order)[1]

\* C17: rows are registered in ascending order of their numeric Order; no row
\* with a number as Order is registered after a row without one, whatever the
\* number; and rows without a number are registered in sheet order.
C17_RowsWithoutOrderLast ==
    \A i, j \in DOMAIN spec_objects :
        i < j =>
            LET a == req_rows[SheetPosition(spec_objects[i])]
                b == req_rows[SheetPosition(spec_objects[j])]
            IN  /\ (HasOrder(a) /\ HasOrder(b)) => OrderOf(a) <= OrderOf(b)
                /\ ~(~HasOrder(a) /\ HasOrder(b))
                /\ (~HasOrder(a) /\ ~HasOrder(b))
                     => SheetPosition(spec_objects[i]) < SheetPosition(spec_objects[j])

\* the same statement for sheets whose numbers are all below 1000000
RowsWithSmallOrderSorted ==
    (\A k \in DOMAIN req_rows : HasOrder(req_rows[k]) => OrderOf(req_rows[k]) < 1000000)
        => C17_RowsWithoutOrderLast

KindWords == {"functional", "interface", "performance"}
RegisteredAs(kind) ==
    /\ result'.value # ""
    /\ Len(spec_objects') = Len(spec_objects) + 1
    /\ spec_objects'[Len(spec_objects')].type_ref = TypeOfKind[kind]
    /\ warnings' = warnings
SkippedWithWarning ==
    /\ result'.value = ""
    /\ spec_objects' = spec_objects
    /\ Len(warnings') = Len(warnings) + 1

\* C18 as stated: a row whose type, trimmed and in lower case, contains
\* "functional" is registered as functional, a row whose type is a listed
\* synonym is registered as the synonym's kind, and a row is skipped with a
\* warning exactly when its type is no synonym and contains no kind word.
C18_ContainsFunctionalIsFunctional ==
    [][ RequirementRowStep =>
          LET raw_type == RawType(HandledRow.type)
          IN  /\ Contains(raw_type, "functional") => RegisteredAs("functional")
              /\ raw_type \in DOMAIN TYPE_MAP => RegisteredAs(TYPE_MAP[raw_type])
              /\ SkippedWithWarning
                   <=> /\ raw_type \notin DOMAIN TYPE_MAP
                       /\ \A w \in KindWords : ~Contains(raw_type, w) ]_vars

\* C18: a row whose type, trimmed and in lower case, is a listed synonym is
\* registered as the synonym's kind, "non-functional" as performance; any
\* other row is registered as functional if its type contains "functional",
\* else as interface if it contains "interface", else as performance if it
\* contains "performance"; and a row is skipped with a warning exactly when
\* its type is no synonym and contains no kind word.
C18_SynonymsBeforeKindWords ==
    [][ RequirementRowStep =>
          LET raw_type == RawType(HandledRow.type)
          IN  /\ raw_type \in DOMAIN TYPE_MAP => RegisteredAs(TYPE_MAP[raw_type])
              /\ (raw_type \notin DOMAIN TYPE_MAP /\ Contains(raw_type, "functional"))
                   => RegisteredAs("functional")
              /\ (raw_type \notin DOMAIN TYPE_MAP /\ ~Contains(raw_type, "functional")
                  /\ Contains(raw_type, "interface"))
                   => RegisteredAs("interface")
              /\ (raw_type \notin DOMAIN TYPE_MAP /\ ~Contains(raw_type, "functional")
                  /\ ~Contains(raw_type, "interface") /\ Contains(raw_type, "performance"))
                   => RegisteredAs("performance")
              /\ SkippedWithWarning
                   <=> /\ raw_type \notin DOMAIN TYPE_MAP
                       /\ \A w \in KindWords : ~Contains(raw_type, w) ]_vars

C18_Witness ==
    /\ pc = "done"
    /\ Len(req_rows) = 2
    /\ req_rows[1].type = "non-functional"
    /\ req_rows[2].type = "non-functional requirement"
    /\ Len(spec_objects) = 2
    /\ spec_objects[1].type_ref = "T-REQ-PERFORMANCE"
    /\ spec_objects[2].type_ref = "T-REQ-FUNCTIONAL"

\* C19: each requirement row either appends one object and records no
\* warning, or records one warning and appends nothing; each relation row
\* either appends one relation or records one warning; no step of the run
\* raises, each row step moves on to the next row, the step after the last
\* relation row writes the document; and once it is written, the reported
\* counts are the lengths of the object list and the relation list.
C19_RowsRecoveredLocally ==
    /\ [][ RequirementRowStep =>
             /\ spec_relations' = spec_relations
             /\ \/ /\ Len(spec_objects') = Len(spec_objects) + 1
                   /\ SubSeq(spec_objects', 1, Len(spec_objects)) = spec_objects
                   /\ warnings' = warnings
                \/ /\ spec_objects' = spec_objects
                   /\ Len(warnings') = Len(warnings) + 1 ]_vars
    /\ [][ RelationRowStep =>
             /\ spec_objects' = spec_objects
             /\ \/ /\ Len(spec_relations') = Len(spec_relations) + 1
                   /\ SubSeq(spec_relations', 1, Len(spec_relations)) = spec_relations
                   /\ warnings' = warnings
                \/ /\ spec_relations' = spec_relations
                   /\ Len(warnings') = Len(warnings) + 1 ]_vars
    /\ [][ (RequirementRowStep \/ RelationRowStep) => (result'.raised = "" /\ pc' = pc) ]_vars
    /\ [][ (pc = "relations" /\ next_row > Len(rel_rows))
           => (pc' = "done" /\ Len(encodings') = 1) ]_vars
    /\ [](pc # "failed")
    /\ [](pc = "done" =>
            /\ Len(encodings) = 1
            /\ added_reqs = Len(spec_objects)
            /\ added_rels = Len(spec_relations)
            /\ Len(spec_objects) + Len(spec_relations) + Len(warnings)
                 = Len(req_rows) + Len(rel_rows))

C19_Witness ==
    /\ pc = "done"
    /\ Len(req_rows) = 2
    /\ Len(rel_rows) = 1
    /\ Len(spec_objects) = 1
    /\ spec_relations = <<>>
    /\ Len(warnings) = 2

\* C20: generate never raises on a document built by add_requirement and
\* add_relation calls that returned normally, with or without a chapter and
\* with the body text as a str or an Element.
C20_EncodeNeverRaises == result.op = "generate" => result.raised = ""

\* the same statement for documents whose objects all have a chapter
EncodeWithChaptersNeverRaises ==
    (result.op = "generate" /\ \A i \in DOMAIN spec_objects : spec_objects[i].chapter # PyNone)
        => /\ result.raised = ""
           /\ encodings # <<>>

\* every paragraph of a fragment has text, every list has an item, and every
\* item has text
BlocksNotEmpty(div) ==
    \A i \in DOMAIN div :
        IF "ul" \in DOMAIN div[i]
        THEN /\ div[i].ul # <<>>
             /\ \A k \in DOMAIN div[i].ul : div[i].ul[k] # <<>>
        ELSE div[i].p # <<>>

\* C23: for every text, blank lines and whitespace only included, the
\* fragment has at least one block; and for a non-empty text every paragraph
\* has text, every list has an item, and every item has text.
C23_FragmentNeverEmpty ==
    Converted =>
        /\ Len(result.value) >= 1
        /\ text # <<>> => BlocksNotEmpty(result.value)

\* the same statement for the texts that hold a character other than
\* whitespace, and for the empty text
FragmentOfVisibleTextNotEmpty ==
    (Converted /\ (text = <<>> \/ \E i \in DOMAIN text : text[i] \notin Whitespace)) =>
        /\ Len(result.value) >= 1
        /\ text # <<>> => BlocksNotEmpty(result.value)

ThreeDigits == <<"001", "002", "003", "004", "005">>

\* C22: a call that omits the identifier returns SO-<F|I|P>-<n>: the letter
\* of the call's kind and, in three digits, the position at which the object
\* is registered, counting every object registered before it, of any kind and
\* with a generated or a supplied identifier; nothing else enters it.
C22_AutoIdentifierFromPosition ==
    (Added /\ result.args.identifier = <<>>) =>
        /\ result.value = "SO-" \o LetterOfType[TypeOfKind[result.args.kind]] \o "-"
                          \o ThreeDigits[Len(spec_objects)]
        /\ LastObject.identifier = result.value

C22_Witness ==
    /\ Added
    /\ result.args.identifier = <<>>
    /\ Len(spec_objects) = 2
    /\ spec_objects[1].identifier = "SO-F-002"
    /\ spec_objects[1].type_ref = "T-REQ-FUNCTIONAL"
    /\ result.value = "SO-F-002"

\* generate() has raised, or the run of main() has ended early
RunFailed == (result.raised # "" /\ result.op \in {"render", "open", "write"}) \/ pc = "failed"
\* the path holds every byte of a rendered document
CompleteFile == output_file.exists /\ output_file.of # <<>> /\ output_file.chunks = MaxChunks

\* the path changes only once xml_str holds the whole document, and no step
\* that fails before the open changes it
OpenedOnlyAfterRendering ==
    [][/\ output_file' # output_file => (xml_str # <<>> /\ gen_pc \in {"rendered", "open"})
       /\ (result'.raised # "" /\ result'.op \notin {"open", "write"})
              => output_file' = output_file]_vars

\* success is reported from the closed file only, and the path then holds the
\* whole of the document rendered
ReportedOnlyWhenWritten ==
    /\ [][(result'.op = "generate" /\ result'.raised = "") => gen_pc = "closed"]_vars
    /\ []((result.op = "generate" /\ result.raised = "")
              => output_file = FileOf(<< encodings[Len(encodings)] >>, MaxChunks))
    /\ [](pc = "done" => CompleteFile)

\* whenever the run has failed, the path holds what it held before or a
\* complete document
FailureLeavesPreviousOrComplete ==
    [](RunFailed => (output_file = previous_file \/ CompleteFile))

\* C21: the output path is opened only after the whole document is rendered
\* in memory, so a failure while reading the workbook, populating the model or
\* rendering leaves the path untouched; success is reported only after the
\* file is fully written and closed; and on any failure of the run the path
\* holds either its previous content or the complete document.
C21_OutputNeverPartial ==
    /\ OpenedOnlyAfterRendering
    /\ ReportedOnlyWhenWritten
    /\ FailureLeavesPreviousOrComplete

\* the same with the last part for the failures before the first write only
OutputUntouchedUntilOpened ==
    /\ OpenedOnlyAfterRendering
    /\ ReportedOnlyWhenWritten
    /\ []((RunFailed /\ result.op # "write") => output_file = previous_file)

====
